---- MODULE Spec2Model ----
(***************************************************************************)
(* Model of src/script_parser.py: the line-oriented scene/dialogue parser  *)
(* parse_friends_script, the buffer cleaner clean_line_and_extract_page    *)
(* and the aggregator calculate_script_statistics.                         *)
(*                                                                         *)
(* Text.  A Python string is modelled as the sequence of its words, the    *)
(* words being separated by exactly one blank.  The empty word "" stands   *)
(* for nothing between two blanks, so <<"a", "", "b">> is "a  b" and       *)
(* <<"", "a">> is " a".  The empty string is <<>>.                         *)
(*                                                                         *)
(* Optional values.  Python's None is the string None where the value is   *)
(* a string, 0 where it is a 1-based line number, and <<>> against <<v>>   *)
(* where it is a text or a record.                                         *)
(*                                                                         *)
(* Python sets are TLA+ sets; list(set) has no specified order, so the     *)
(* lists made from sets at scene close are kept as sets.                   *)
(***************************************************************************)
EXTENDS Naturals, Integers, Sequences, FiniteSets, TLC

\* ------------------------------------------------------------- bounds

\* Longest input, in lines.
MaxLines == 4

\* ------------------------------------------------------------- words

None == "None"

HeadingWord == "[Scene:"
SpeakerWords == {"Ross:", "Joey:"}
StageWords == {"(waves)"}
PageWords == {"1/22", "2/22"}
DateWords == {"7/5/25,"}
UrlWords == {"http://x"}
ClosingWords == {"Perk]"}

\* The episode title handed to the parser in metadata, as words.
TitleWords == <<"The", "One", "Where">>

\* The name captured by ([A-Z][a-z]+) in a word of the form Name:
SpeakerName(w) == IF w = "Ross:" THEN "Ross" ELSE "Joey"

\* A word ending in "]", without the bracket.
BeforeBracket(w) == IF w = "Perk]" THEN "Perk" ELSE w

\* int(p.split('/')[0]) of a page marker N/M.
Numerator(p) == IF p = "1/22" THEN 1 ELSE 2

\* The input lines the model draws from, each as raw text.
Lines ==
  { <<>>,
    <<"", "">>,
    <<"The", "One", "Where", "http://x", "1/22">>,
    <<"7/5/25,", "AM">>,
    <<"[Scene:", "Perk]">>,
    <<"[Scene:", "Perk">>,
    <<"(waves)">>,
    <<"(waves)", "2/22">>,
    <<"Ross:", "hi", "1/22">>,
    <<"Joey:">>,
    <<"Joey:", "yo", "http://x", "2/22">>,
    <<"yo">>,
    <<"so", "The", "One", "Where">> }

\* ------------------------------------------------------------- text

RECURSIVE lstrip(_)
lstrip(s) ==
  IF s = <<>> THEN <<>>
  ELSE IF Head(s) = "" THEN lstrip(Tail(s)) ELSE s

RECURSIVE rstrip(_)
rstrip(s) ==
  IF s = <<>> THEN <<>>
  ELSE IF s[Len(s)] = "" THEN rstrip(SubSeq(s, 1, Len(s) - 1)) ELSE s

\* str.strip()
strip(s) == rstrip(lstrip(s))

\* a + " " + b
JoinWithSpace(a, b) ==
  (IF a = <<>> THEN <<"">> ELSE a) \o (IF b = <<>> THEN <<"">> ELSE b)

\* sub in s, for texts of whole words
Contains(s, sub) ==
  \E i \in 1..(Len(s) - Len(sub) + 1) : SubSeq(s, i, i + Len(sub) - 1) = sub

EndsWith(s, sub) ==
  /\ Len(s) >= Len(sub)
  /\ SubSeq(s, Len(s) - Len(sub) + 1, Len(s)) = sub

HasWordIn(s, W) == \E i \in 1..Len(s) : s[i] \in W

StartsWithWordIn(s, W) == s # <<>> /\ s[1] \in W

\* ------------------------------------------------------------- line tests

NoisePhrases == { <<"The", "One", "Where">>, <<"The", "One", "with">> }

\* not line
IsBlank(line) == line = <<>>

\* ("The One Where" in line or "The One with" in line) and "http" in line
\* and re.search(r"\d+/\d+", line)
IsNoise(line) ==
  /\ \E ph \in NoisePhrases : Contains(line, ph)
  /\ HasWordIn(line, UrlWords)
  /\ HasWordIn(line, PageWords \cup DateWords)

\* re.match(r'^\d{1,2}/\d{1,2}/\d{2,4}', line)
IsDate(line) == StartsWithWordIn(line, DateWords)

\* line.startswith("[Scene:")
IsHeading(line) == StartsWithWordIn(line, {HeadingWord})

\* line.startswith("[") or line.startswith("(")
IsStage(line) == StartsWithWordIn(line, StageWords \cup {HeadingWord})

\* re.match(r"^([A-Z][a-z]+):\s*(.*)", line)
IsSpeaker(line) == StartsWithWordIn(line, SpeakerWords)

\* group(2) of the speaker match: the text after the colon and any blanks
SpeakerText(line) == lstrip(Tail(line))

\* re.search(r"\[Scene:\s*(.*?)\]", line): group(1) up to the first "]",
\* or no match
RECURSIVE UpToBracket(_)
UpToBracket(s) ==
  IF s = <<>> THEN <<>>
  ELSE IF Head(s) \in ClosingWords THEN << <<BeforeBracket(Head(s))>> >>
  ELSE LET r == UpToBracket(Tail(s))
       IN IF r = <<>> THEN <<>> ELSE << <<Head(s)>> \o r[1] >>

SceneDescription(line) == UpToBracket(lstrip(Tail(line)))

\* ------------------------------------------------------------- cleaning

\* re.sub(r'https?://\S+', '', s)
RECURSIVE RemoveUrls(_)
RemoveUrls(s) ==
  IF s = <<>> THEN <<>>
  ELSE <<IF Head(s) \in UrlWords THEN "" ELSE Head(s)>> \o RemoveUrls(Tail(s))

\* re.sub(rf'\s*{re.escape(episode_title)}\s*$', '', s)
RemoveTrailingTitle(s, title) ==
  IF EndsWith(s, title) THEN rstrip(SubSeq(s, 1, Len(s) - Len(title))) ELSE s

\* clean_line_and_extract_page(text, episode_title): <<raw_before, page_number>>
clean_line_and_extract_page(text, episode_title) ==
  LET original == strip(text)
      matched == original # <<>> /\ original[Len(original)] \in PageWords
      before == IF matched
                THEN strip(SubSeq(original, 1, Len(original) - 1))
                ELSE original
      page_number == IF matched THEN original[Len(original)] ELSE None
      untitled == IF episode_title # <<>>
                  THEN RemoveTrailingTitle(before, episode_title[1])
                  ELSE before
  IN <<strip(RemoveUrls(untitled)), page_number>>

\* ------------------------------------------------------------- state

VARIABLES
  episode_title,    \* metadata.get("episode_title"): <<>> or <<title>>
  script_data,      \* the scenes emitted so far
  current_scene,    \* the open scene
  current_speaker,  \* a name, or None
  buffer,           \* the pending dialogue text
  scene_counter,
  line_num,         \* lines read so far; the line being read is line_num + 1
  pc,               \* "loop", "parsed", "stats" or "error"
  statistics,       \* <<>> until calculate_script_statistics returns <<stats>>
  \* history, not read by the program
  h_start,          \* index of the speaker line that set current_speaker, or 0
  h_src,            \* indices of the lines whose text is in buffer
  h_spoken,         \* indices of the lines whose text went into a buffer
  h_dropped,        \* indices of the lines in a buffer reset by a heading
  h_headings,       \* indices of the heading lines read, in order
  \* extract_episode_metadata, as a function of its own
  m_filename,       \* os.path.basename(pdf_path), in parts
  m_lines,          \* text.splitlines()
  m_pc,             \* "idle", "call" or "done"
  metadata,         \* <<>> until extract_episode_metadata returns <<metadata>>
  \* clean_episode_title_from_dialogue, as a function of its own
  s_title,          \* episode_title: <<>> or <<title>>, the title in characters
  s_data,           \* script_data, the lines in characters
  s_count,          \* cleaned_count of the last call
  s_pc              \* "idle", or the number of calls made

vars ==
  <<episode_title, script_data, current_scene, current_speaker, buffer,
    scene_counter, line_num, pc, statistics,
    h_start, h_src, h_spoken, h_dropped, h_headings,
    m_filename, m_lines, m_pc, metadata,
    s_title, s_data, s_count, s_pc>>

hvars == <<h_start, h_src, h_spoken, h_dropped, h_headings>>

\* The state of extract_episode_metadata.
mvars == <<m_filename, m_lines, m_pc, metadata>>

\* The state of clean_episode_title_from_dialogue.
svars == <<s_title, s_data, s_count, s_pc>>

\* Neither function is being applied.
OthersIdle ==
  /\ m_filename = <<>>
  /\ m_lines = <<>>
  /\ m_pc = "idle"
  /\ metadata = <<>>
  /\ s_title = <<>>
  /\ s_data = <<>>
  /\ s_count = 0
  /\ s_pc = "idle"

\* The scene opened before the loop (it has no line_number_start key).
InitialScene(title) ==
  [ scene |-> <<>>,
    scene_number |-> 0,
    characters |-> {},
    dialogue |-> <<>>,
    page_numbers |-> {},
    episode_title |-> title,
    stage_directions |-> <<>>,
    line_number_start |-> 0 ]

\* The scene opened by a [Scene: heading.
NewScene(line, counter, title, lineno) ==
  [ scene |-> SceneDescription(line),
    scene_number |-> counter,
    characters |-> {},
    dialogue |-> <<>>,
    page_numbers |-> {},
    episode_title |-> title,
    stage_directions |-> <<>>,
    line_number_start |-> lineno ]

Init ==
  /\ episode_title \in { <<>>, <<TitleWords>> }
  /\ script_data = <<>>
  /\ current_scene = InitialScene(episode_title)
  /\ current_speaker = None
  /\ buffer = <<>>
  /\ scene_counter = 0
  /\ line_num = 0
  /\ pc = "loop"
  /\ statistics = <<>>
  /\ h_start = 0
  /\ h_src = {}
  /\ h_spoken = {}
  /\ h_dropped = {}
  /\ h_headings = <<>>
  /\ OthersIdle

\* ------------------------------------------------------------- parser

\* The if/continue chain of the loop body: the first test that holds decides.
LineKind(line) ==
  IF IsBlank(line) THEN "blank"
  ELSE IF IsNoise(line) THEN "noise"
  ELSE IF IsDate(line) THEN "date"
  ELSE IF IsHeading(line) THEN "heading"
  ELSE IF IsStage(line) THEN "stage"
  ELSE IF IsSpeaker(line) THEN "speaker"
  ELSE "other"

\* Mutant of ShouldEmit: stage directions do not count as content.
ShouldEmit_DialogueOnly(scene) == scene.dialogue # <<>>

\* if current_scene["dialogue"] or current_scene["stage_directions"]
ShouldEmit(scene) == scene.dialogue # <<>> \/ scene.stage_directions # <<>>

\* Mutant of NextSceneCounter: the increment is lost.
NextSceneCounter_NoIncrement(counter) == counter

\* scene_counter += 1
NextSceneCounter(counter) == counter + 1

\* Mutant of RegisterSpeaker: the speaker is not added.
RegisterSpeaker_Skipped(characters, name) == characters

\* current_scene["characters"].add(current_speaker)
RegisterSpeaker(characters, name) == characters \cup {name}

\* if current_speaker and buffer
Pending(speaker, buf) == speaker # None /\ buf # <<>>

\* Mutant of FlushInto: the page marker is not added to the scene's set.
FlushInto_PageUnregistered(scene, speaker, buf, title, lineno, start, src) ==
  LET r == clean_line_and_extract_page(strip(buf), title)
      entry == [ speaker |-> speaker,
                 line |-> r[1],
                 line_number |-> lineno,
                 page_number |-> r[2],
                 start |-> start,
                 src |-> src ]
  IN [ scene EXCEPT !.dialogue = Append(@, entry) ]

\* The entry built from the buffer, appended to the scene with its page marker.
\* start and src are history: the speaker line that began the entry and the
\* lines whose text it was built from.
FlushInto(scene, speaker, buf, title, lineno, start, src) ==
  LET r == clean_line_and_extract_page(strip(buf), title)
      entry == [ speaker |-> speaker,
                 line |-> r[1],
                 line_number |-> lineno,
                 page_number |-> r[2],
                 start |-> start,
                 src |-> src ]
  IN [ scene EXCEPT
         !.dialogue = Append(@, entry),
         !.page_numbers = IF r[2] # None THEN @ \cup {r[2]} ELSE @ ]

Reading(raw, kind) ==
  /\ pc = "loop"
  /\ line_num < MaxLines
  /\ raw \in Lines
  /\ LineKind(strip(raw)) = kind

\* if not line: continue
SkipBlank ==
  \E raw \in Lines :
    /\ Reading(raw, "blank")
    /\ line_num' = line_num + 1
    /\ UNCHANGED <<mvars, svars, episode_title, script_data, current_scene, current_speaker,
                   buffer, scene_counter, pc, statistics, hvars>>

\* title + URL + page-number noise: continue
SkipNoise ==
  \E raw \in Lines :
    /\ Reading(raw, "noise")
    /\ line_num' = line_num + 1
    /\ UNCHANGED <<mvars, svars, episode_title, script_data, current_scene, current_speaker,
                   buffer, scene_counter, pc, statistics, hvars>>

\* a line starting with a date: continue
SkipDate ==
  \E raw \in Lines :
    /\ Reading(raw, "date")
    /\ line_num' = line_num + 1
    /\ UNCHANGED <<mvars, svars, episode_title, script_data, current_scene, current_speaker,
                   buffer, scene_counter, pc, statistics, hvars>>

\* Mutant of SceneHeading: the pending entry is flushed into the closing scene.
SceneHeading_Flushing ==
  \E raw \in Lines :
    /\ Reading(raw, "heading")
    /\ LET closing == IF Pending(current_speaker, buffer)
                      THEN FlushInto(current_scene, current_speaker, buffer,
                                     episode_title, line_num + 1, h_start, h_src)
                      ELSE current_scene
       IN script_data' = IF ShouldEmit(closing)
                         THEN Append(script_data, closing)
                         ELSE script_data
    /\ scene_counter' = NextSceneCounter(scene_counter)
    /\ current_scene' = NewScene(strip(raw), scene_counter', episode_title,
                                 line_num + 1)
    /\ current_speaker' = None
    /\ buffer' = <<>>
    /\ line_num' = line_num + 1
    /\ h_dropped' = IF Pending(current_speaker, buffer)
                    THEN h_dropped \cup h_src ELSE h_dropped
    /\ h_src' = {}
    /\ h_start' = 0
    /\ h_headings' = Append(h_headings, line_num + 1)
    /\ UNCHANGED <<mvars, svars, episode_title, pc, statistics, h_spoken>>

\* Mutant of SceneHeading: the counter is incremented only when the open
\* scene is emitted.
SceneHeading_CountEmitted ==
  \E raw \in Lines :
    /\ Reading(raw, "heading")
    /\ script_data' = IF ShouldEmit(current_scene)
                      THEN Append(script_data, current_scene)
                      ELSE script_data
    /\ scene_counter' = IF ShouldEmit(current_scene)
                        THEN NextSceneCounter(scene_counter)
                        ELSE scene_counter
    /\ current_scene' = NewScene(strip(raw), scene_counter', episode_title,
                                 line_num + 1)
    /\ current_speaker' = None
    /\ buffer' = <<>>
    /\ line_num' = line_num + 1
    /\ h_dropped' = IF Pending(current_speaker, buffer)
                    THEN h_dropped \cup h_src ELSE h_dropped
    /\ h_src' = {}
    /\ h_start' = 0
    /\ h_headings' = Append(h_headings, line_num + 1)
    /\ UNCHANGED <<mvars, svars, episode_title, pc, statistics, h_spoken>>

\* if line.startswith("[Scene:")
SceneHeading ==
  \E raw \in Lines :
    /\ Reading(raw, "heading")
    /\ script_data' = IF ShouldEmit(current_scene)
                      THEN Append(script_data, current_scene)
                      ELSE script_data
    /\ scene_counter' = NextSceneCounter(scene_counter)
    /\ current_scene' = NewScene(strip(raw), scene_counter', episode_title,
                                 line_num + 1)
    /\ current_speaker' = None
    /\ buffer' = <<>>
    /\ line_num' = line_num + 1
    /\ h_dropped' = IF Pending(current_speaker, buffer)
                    THEN h_dropped \cup h_src ELSE h_dropped
    /\ h_src' = {}
    /\ h_start' = 0
    /\ h_headings' = Append(h_headings, line_num + 1)
    /\ UNCHANGED <<mvars, svars, episode_title, pc, statistics, h_spoken>>

\* Mutant of StageDirection: the line also ends the pending entry, as a
\* heading does.
StageDirection_ResetsSpeaker ==
  \E raw \in Lines :
    /\ Reading(raw, "stage")
    /\ current_scene' =
         [ current_scene EXCEPT
             !.stage_directions =
               Append(@, [direction |-> strip(raw), line_number |-> line_num + 1]) ]
    /\ current_speaker' = None
    /\ buffer' = <<>>
    /\ line_num' = line_num + 1
    /\ UNCHANGED <<mvars, svars, episode_title, script_data,
                   scene_counter, pc, statistics, hvars>>

\* if line.startswith("[") or line.startswith("(")
StageDirection ==
  \E raw \in Lines :
    /\ Reading(raw, "stage")
    /\ current_scene' =
         [ current_scene EXCEPT
             !.stage_directions =
               Append(@, [direction |-> strip(raw), line_number |-> line_num + 1]) ]
    /\ line_num' = line_num + 1
    /\ UNCHANGED <<mvars, svars, episode_title, script_data, current_speaker, buffer,
                   scene_counter, pc, statistics, hvars>>

\* the speaker match: flush the pending entry, then start the next one
SpeakerLine ==
  \E raw \in Lines :
    /\ Reading(raw, "speaker")
    /\ LET line == strip(raw)
           flushed == IF Pending(current_speaker, buffer)
                      THEN FlushInto(current_scene, current_speaker, buffer,
                                     episode_title, line_num + 1, h_start, h_src)
                      ELSE current_scene
       IN /\ current_speaker' = SpeakerName(line[1])
          /\ buffer' = SpeakerText(line)
          /\ current_scene' =
               [ flushed EXCEPT
                   !.characters = RegisterSpeaker(@, current_speaker') ]
          /\ h_start' = line_num + 1
          /\ h_src' = IF buffer' # <<>> THEN {line_num + 1} ELSE {}
          /\ h_spoken' = h_spoken \cup h_src'
    /\ line_num' = line_num + 1
    /\ UNCHANGED <<mvars, svars, episode_title, script_data, scene_counter, pc, statistics,
                   h_dropped, h_headings>>

\* else: if current_speaker: buffer += " " + line
Continuation ==
  \E raw \in Lines :
    /\ Reading(raw, "other")
    /\ IF current_speaker # None
       THEN /\ buffer' = JoinWithSpace(buffer, strip(raw))
            /\ h_src' = h_src \cup {line_num + 1}
            /\ h_spoken' = h_spoken \cup {line_num + 1}
       ELSE UNCHANGED <<buffer, h_src, h_spoken>>
    /\ line_num' = line_num + 1
    /\ UNCHANGED <<mvars, svars, episode_title, script_data, current_scene, current_speaker,
                   scene_counter, pc, statistics, h_start, h_dropped,
                   h_headings>>

\* The final dialogue flush after the loop, and the return.
EndOfInput ==
  /\ pc = "loop"
  /\ IF Pending(current_speaker, buffer)
     THEN /\ current_scene' =
               FlushInto(current_scene, current_speaker, buffer, episode_title,
                         line_num, h_start, h_src)
          /\ script_data' = Append(script_data, current_scene')
     ELSE UNCHANGED <<current_scene, script_data>>
  /\ pc' = "parsed"
  /\ UNCHANGED <<mvars, svars, episode_title, current_speaker, buffer, scene_counter,
                 line_num, statistics, hvars>>

\* ------------------------------------------------------------- statistics

\* A Python float quotient a / b, kept as the pair <<a, b>>; dividing by zero
\* raises.
ZeroDivisionError == <<0, 0>>

Divide(a, b) == IF b = 0 THEN ZeroDivisionError ELSE <<a, b>>

\* The integer 0 a field holds when no quotient is computed.
Zero == <<0, 1>>

RECURSIVE SumSeq(_)
SumSeq(s) == IF s = <<>> THEN 0 ELSE Head(s) + SumSeq(Tail(s))

MaxOf(S) == CHOOSE x \in S : \A y \in S : y <= x

MinOf(S) == CHOOSE x \in S : \A y \in S : x <= y

Elements(s) == { s[i] : i \in 1..Len(s) }

\* Mutant of IndexOf: the last position holding v.
IndexOf_Last(s, v) == MaxOf({ i \in 1..Len(s) : s[i] = v }) - 1

\* list.index(v): the first 0-based position holding v
IndexOf(s, v) == MinOf({ i \in 1..Len(s) : s[i] = v }) - 1

\* stats["scene_lengths"]
SceneLengths(data) == [ i \in 1..Len(data) |-> Len(data[i].dialogue) ]

\* Mutant of AverageSceneLength: the emptiness guard is missing.
AverageSceneLength_Unguarded(lengths) == Divide(SumSeq(lengths), Len(lengths))

\* if stats["scene_lengths"]: sum(...) / len(...), else the initial 0
AverageSceneLength(lengths) ==
  IF lengths # <<>> THEN Divide(SumSeq(lengths), Len(lengths)) ELSE Zero

\* stats["longest_scene"] / stats["shortest_scene"]: <<>> for None
LongestScene(lengths) ==
  IF lengths # <<>>
  THEN << [ length |-> MaxOf(Elements(lengths)),
            scene_index |-> IndexOf(lengths, MaxOf(Elements(lengths))) ] >>
  ELSE <<>>

ShortestScene(lengths) ==
  IF lengths # <<>>
  THEN << [ length |-> MinOf(Elements(lengths)),
            scene_index |-> IndexOf(lengths, MinOf(Elements(lengths))) ] >>
  ELSE <<>>

\* Mutant of UniqueCharacters: each scene's characters replace the set
\* instead of being added to it.
UniqueCharacters_LastScene(data) ==
  IF data = <<>> THEN {} ELSE data[Len(data)].characters

\* stats["unique_characters"]: every name of a scene's characters
UniqueCharacters(data) == UNION { data[i].characters : i \in 1..Len(data) }

\* stats["speaking_characters"]: every speaker of a dialogue entry
SpeakingCharacters(data) ==
  UNION { { data[i].dialogue[k].speaker : k \in 1..Len(data[i].dialogue) } :
          i \in 1..Len(data) }

\* The names with a character_stats record once scene i's characters are in.
KnownBy(data, i) == UNION { data[j].characters : j \in 1..i }

\* total_lines of char: the entries it speaks in scenes by which it is known
TotalLines(data, char) ==
  Cardinality({ <<i, k>> \in (1..Len(data)) \X (1..MaxLines + 1) :
                  /\ k <= Len(data[i].dialogue)
                  /\ data[i].dialogue[k].speaker = char
                  /\ char \in KnownBy(data, i) })

ScenesAppeared(data, char) ==
  Cardinality({ i \in 1..Len(data) : char \in data[i].characters })

CharacterStats(data) ==
  [ char \in UniqueCharacters(data) |->
      [ total_lines |-> TotalLines(data, char),
        scenes_appeared |-> ScenesAppeared(data, char),
        average_lines_per_scene |->
          IF ScenesAppeared(data, char) > 0
          THEN Divide(TotalLines(data, char), ScenesAppeared(data, char))
          ELSE Zero ] ]

\* stats["page_range"]: <<>> for None
PageRange(data) ==
  LET all_pages == UNION { data[i].page_numbers : i \in 1..Len(data) }
      page_nums == { Numerator(p) : p \in all_pages }
  IN IF all_pages # {}
     THEN << [ start |-> MinOf(page_nums), end |-> MaxOf(page_nums) ] >>
     ELSE <<>>

calculate_script_statistics(data) ==
  [ total_scenes |-> Len(data),
    total_dialogue_lines |-> SumSeq(SceneLengths(data)),
    character_stats |-> CharacterStats(data),
    scene_lengths |-> SceneLengths(data),
    average_scene_length |-> AverageSceneLength(SceneLengths(data)),
    longest_scene |-> LongestScene(SceneLengths(data)),
    shortest_scene |-> ShortestScene(SceneLengths(data)),
    page_range |-> PageRange(data),
    unique_characters |-> UniqueCharacters(data),
    speaking_characters |-> SpeakingCharacters(data) ]

\* a division in the aggregator raised
Raised(stats) ==
  \/ stats.average_scene_length = ZeroDivisionError
  \/ \E c \in DOMAIN stats.character_stats :
       stats.character_stats[c].average_lines_per_scene = ZeroDivisionError

\* statistics = calculate_script_statistics(script_data)
CalculateStatistics ==
  /\ pc = "parsed"
  /\ statistics' = <<calculate_script_statistics(script_data)>>
  /\ pc' = IF Raised(statistics'[1]) THEN "error" ELSE "stats"
  /\ UNCHANGED <<mvars, svars, episode_title, script_data, current_scene, current_speaker,
                 buffer, scene_counter, line_num, hvars>>

\* ------------------------------------------------------------- specification

Next ==
  \/ SkipBlank
  \/ SkipNoise
  \/ SkipDate
  \/ SceneHeading
  \/ StageDirection
  \/ SpeakerLine
  \/ Continuation
  \/ EndOfInput
  \/ CalculateStatistics

Spec == Init /\ [][Next]_vars

\* ------------------------------------------------------------- title scrubber

(***************************************************************************)
(* clean_episode_title_from_dialogue removes the title together with the   *)
(* blanks around it and so joins the characters on both sides; its texts   *)
(* are therefore sequences of characters.  The title has single blanks     *)
(* between its words and texts are of one case (the pattern ignores case). *)
(***************************************************************************)

\* Longest dialogue line, in characters.
MaxText == 8

Blank == " "

ScrubChars == {"a", "b", Blank}

\* An episode title of two words.
ScrubTitle == <<"a", "a", Blank, "b">>

\* str.strip(), on characters
RECURSIVE StripLeft(_)
StripLeft(s) ==
  IF s = <<>> THEN <<>>
  ELSE IF Head(s) = Blank THEN StripLeft(Tail(s)) ELSE s

RECURSIVE StripRight(_)
StripRight(s) ==
  IF s = <<>> THEN <<>>
  ELSE IF s[Len(s)] = Blank THEN StripRight(SubSeq(s, 1, Len(s) - 1)) ELSE s

StripChars(s) == StripRight(StripLeft(s))

\* The dialogue lines the parser can produce: stripped texts.
ScrubTexts ==
  { t \in UNION { [1..n -> ScrubChars] : n \in 0..MaxText } : StripChars(t) = t }

\* The lines of a second entry.
SecondTexts == { <<>>, <<"a", Blank, Blank, "b">>, <<"b", Blank, "a", "a", Blank, "b">> }

\* \s* at position i: the position after the blanks
RECURSIVE SkipBlanks(_, _)
SkipBlanks(s, i) ==
  IF i <= Len(s) /\ s[i] = Blank THEN SkipBlanks(s, i + 1) ELSE i

\* re.escape(title) with each blank replaced by \s+, matched at position i
\* from the k-th character of the title: the position after the match, or 0
RECURSIVE MatchTitle(_, _, _, _)
MatchTitle(s, i, title, k) ==
  IF k > Len(title) THEN i
  ELSE IF i > Len(s) THEN 0
  ELSE IF title[k] = Blank
       THEN IF s[i] = Blank
            THEN MatchTitle(s, SkipBlanks(s, i), title, k + 1)
            ELSE 0
       ELSE IF s[i] = title[k]
            THEN MatchTitle(s, i + 1, title, k + 1)
            ELSE 0

\* title_pattern = \s*<title>\s* matched at position i: the position after
\* the match, or 0
MatchPattern(s, i, title) ==
  LET e == MatchTitle(s, SkipBlanks(s, i), title, 1)
  IN IF e = 0 THEN 0 ELSE SkipBlanks(s, e)

\* re.sub(title_pattern, '', s), from position i on
RECURSIVE RemoveTitle(_, _, _)
RemoveTitle(s, i, title) ==
  IF i > Len(s) THEN <<>>
  ELSE IF MatchPattern(s, i, title) # 0
       THEN RemoveTitle(s, MatchPattern(s, i, title), title)
       ELSE <<s[i]>> \o RemoveTitle(s, i + 1, title)

\* re.sub(r'\s+', ' ', s)
RECURSIVE CollapseBlanks(_)
CollapseBlanks(s) ==
  IF Len(s) < 2 THEN s
  ELSE IF s[1] = Blank /\ s[2] = Blank THEN CollapseBlanks(Tail(s))
  ELSE <<s[1]>> \o CollapseBlanks(Tail(s))

\* cleaned_line of one entry
CleanedLine(line, title) == StripChars(CollapseBlanks(RemoveTitle(line, 1, title)))

\* The entry after the loop body: updated and marked only if the line changed.
CleanEntry(entry, title) ==
  IF CleanedLine(entry.line, title) # entry.line
  THEN [ entry EXCEPT !.line = CleanedLine(entry.line, title), !.cleaned = TRUE ]
  ELSE entry

\* clean_episode_title_from_dialogue(script_data, episode_title):
\* <<script_data, cleaned_count>>
clean_episode_title_from_dialogue(data, title) ==
  IF title = <<>> THEN <<data, 0>>
  ELSE << [ i \in 1..Len(data) |->
              [ data[i] EXCEPT
                  !.dialogue = [ k \in 1..Len(data[i].dialogue) |->
                                   CleanEntry(data[i].dialogue[k], title[1]) ] ] ],
          Cardinality({ ik \in (1..Len(data)) \X (1..2) :
                          /\ ik[2] <= Len(data[ik[1]].dialogue)
                          /\ CleanedLine(data[ik[1]].dialogue[ik[2]].line, title[1])
                               # data[ik[1]].dialogue[ik[2]].line }) >>

\* The parser is not running.
ParserIdle ==
  /\ episode_title = <<>>
  /\ script_data = <<>>
  /\ current_scene = InitialScene(<<>>)
  /\ current_speaker = None
  /\ buffer = <<>>
  /\ scene_counter = 0
  /\ line_num = 0
  /\ pc = "idle"
  /\ statistics = <<>>
  /\ h_start = 0
  /\ h_src = {}
  /\ h_spoken = {}
  /\ h_dropped = {}
  /\ h_headings = <<>>

\* A dialogue entry as the parser leaves it: no cleaned key.
ScrubEntry(text) == [ line |-> text, cleaned |-> FALSE ]

\* Scene lists of one scene with one or two dialogue entries, and a title or
\* none.
InitScrub ==
  /\ ParserIdle
  /\ m_filename = <<>>
  /\ m_lines = <<>>
  /\ m_pc = "idle"
  /\ metadata = <<>>
  /\ s_title \in { <<>>, <<ScrubTitle>> }
  /\ s_data \in
       { << [dialogue |-> <<ScrubEntry(t)>>] >> : t \in ScrubTexts }
       \cup { << [dialogue |-> <<ScrubEntry(t), ScrubEntry(u)>>] >> :
                t \in SecondTexts, u \in SecondTexts }
  /\ s_count = 0
  /\ s_pc = "first"

\* script_data, cleaned_count = clean_episode_title_from_dialogue(...), called
\* a first and a second time on its own result
Scrub ==
  /\ s_pc \in {"first", "second"}
  /\ s_data' = clean_episode_title_from_dialogue(s_data, s_title)[1]
  /\ s_count' = clean_episode_title_from_dialogue(s_data, s_title)[2]
  /\ s_pc' = IF s_pc = "first" THEN "second" ELSE "done"
  /\ UNCHANGED <<mvars, s_title, episode_title, script_data, current_scene,
                 current_speaker, buffer, scene_counter, line_num, pc,
                 statistics, hvars>>

SpecScrub == InitScrub /\ [][Scrub]_vars

\* ------------------------------------------------------------- episode metadata

(***************************************************************************)
(* extract_episode_metadata reads the season and episode from the file     *)
(* name and the title, credits, production code and page count from the    *)
(* text.  An optional value is <<>> (None) or <<v>>.  A file name is a     *)
(* sequence of segments, each a run of non-digits followed by a run of     *)
(* digits or none.  Texts are of one case (the patterns ignore case), and  *)
(* every credit line names someone after its key.  file_info (file size,   *)
(* extraction date) comes from the environment and is left out.            *)
(***************************************************************************)

\* Greatest season and episode number in a file name.
MaxSeason == 11
MaxEpisode == 2

\* Longest document drawn line by line.
MaxDocLines == 3

\* lines[:50], lines[:10] and i < 3
TitleScanLimit == 50
FirstLinesLimit == 10
FallbackLimit == 3

\* Friends episode counts per season, with the unused entry 0 in front
season_episodes == <<0, 24, 24, 25, 24, 24, 25, 24, 24, 24, 18>>

\* Python truthiness of an optional number
Truthy(opt) == opt # <<>> /\ opt[1] # 0

Segment(letters, digits) == [letters |-> letters, digits |-> digits]

\* Runs of non-digits that end in [Ss], and in [Ee]p?
SeasonLetters == {"S", "s"}
EpisodeLetters == {"_Ep", "Ep", "_E", "E", "_ep", "ep", "_e", "e"}

Extension == Segment(".pdf", <<>>)

Filenames ==
  { sn \o ep \o <<Extension>> :
      sn \in {<<>>} \cup { <<Segment("S", <<n>>)>> : n \in 0..MaxSeason },
      ep \in {<<>>} \cup { <<Segment("_Ep", <<k>>)>> : k \in 0..MaxEpisode } }

\* The file name of the runs that vary the text.
DefaultFilename == <<Segment("S", <<1>>), Segment("_Ep", <<1>>), Extension>>

\* int(re.search(<letters>(\d+), filename).group(1)), or None
FirstNumberAfter(filename, letters) ==
  LET P == { i \in 1..Len(filename) :
               filename[i].letters \in letters /\ filename[i].digits # <<>> }
  IN IF P = {} THEN <<>> ELSE filename[MinOf(P)].digits

Season(filename) == FirstNumberAfter(filename, SeasonLetters)

EpisodeNumber(filename) == FirstNumberAfter(filename, EpisodeLetters)

\* series_episode_number
SeriesEpisodeNumber(season, episode) ==
  IF Truthy(season) /\ Truthy(episode)
  THEN IF season[1] <= Len(season_episodes) - 1
       THEN << SumSeq(SubSeq(season_episodes, 2, season[1])) + episode[1] >>
       ELSE <<>>
  ELSE <<>>

\* Words of the texts.
TheWords == {"The"}
OneWords == {"One"}
OpenParenWords == {"(Part", "("}
CloseParenWords == {"1)"}
BracketWords == {"[Scene:"}
WrittenWords == {"Written"}
StopWord == "Transcribed"
ByColonWords == {"by:"}
Ampersand == "&"

\* Words matching [A-Z][a-z]+
CapitalisedWords ==
  { "Marta", "Kauffman", "David", "Jeff", "Alexa", "James", "Eric",
    "Transcribed", "Written", "Writer", "Teleplay", "Story", "Directed",
    "Director", "Production", "The", "One", "Where", "Friends" }

\* Words matching [A-Z0-9\-]+ as a whole, case ignored
CodeWords == {"456651", "yo"} \cup CapitalisedWords

WrittenByKeys == { <<"Written", "by:">>, <<"Written", "by">> }
WriterKeys == { <<"Writer:">>, <<"Writer">> }
TeleplayByKeys == { <<"Teleplay", "by:">>, <<"Teleplay", "by">> }
StoryByKeys == { <<"Story", "by:">>, <<"Story", "by">> }
DirectedByKeys == { <<"Directed", "by:">>, <<"Directed", "by">> }
DirectorKeys == { <<"Director:">>, <<"Director">> }
ProductionCodeKeys == { <<"Production", "Code:">>, <<"Production", "Code">> }

Filler == <<"yo">>

\* The lines the documents are drawn from.
MetaLines ==
  { Filler,
    <<"Written", "by:", "Marta", "Kauffman", "&", "David", "Transcribed", "by:", "Eric">>,
    <<"Teleplay", "by:", "Jeff">>,
    <<"Story", "by:", "Alexa">>,
    <<"Marta", "&", "David", "Transcribed", "by:", "Eric">>,
    <<"Directed", "by:", "James">>,
    <<"Production", "Code:", "456651">>,
    <<"1/22", "yo", "2/22">>,
    <<"yo", "2/22">>,
    <<"The", "One", "(Part">>,
    <<"1)">> }

ShortDocuments == UNION { [1..n -> MetaLines] : n \in 0..MaxDocLines }

\* Nine lines of filler: what follows them is the tenth line or later.
Padding == [ i \in 1..(FirstLinesLimit - 1) |-> Filler ]

\* Documents that reach beyond the first ten lines.
LongDocuments ==
  { h \o Padding \o t : h \in {<<>>} \cup { <<l>> : l \in MetaLines },
                        t \in { <<l>> : l \in MetaLines } }

Documents == ShortDocuments \cup LongDocuments

Nonblank(s) == \E i \in 1..Len(s) : s[i] # ""

KeyLen(keys) == Len(CHOOSE k \in keys : TRUE)

\* re.search(<key>:?\s*(.+?)(?:\n|<stop>|$), line): where the leftmost match
\* starts, or 0
FirstMatch(line, keys) ==
  LET P == { i \in 1..Len(line) :
               /\ i + KeyLen(keys) - 1 <= Len(line)
               /\ SubSeq(line, i, i + KeyLen(keys) - 1) \in keys
               /\ Nonblank(SubSeq(line, i + KeyLen(keys), Len(line))) }
  IN IF P = {} THEN 0 ELSE MinOf(P)

\* match.group(1).strip(): the text after the key, up to the first stop word
\* behind its first character; <<>> when there is no match
Capture(line, keys, stops) ==
  LET i == FirstMatch(line, keys)
      rest == lstrip(SubSeq(line, i + KeyLen(keys), Len(line)))
      cut == { j \in 2..Len(rest) : rest[j] \in stops }
  IN IF i = 0 THEN <<>>
     ELSE IF cut = {} THEN strip(rest)
     ELSE strip(SubSeq(rest, 1, MinOf(cut) - 1))

\* [w.strip() for w in text.split('&') if w.strip()]
RECURSIVE SplitAmpersand(_)
SplitAmpersand(text) ==
  LET P == { j \in 1..Len(text) : text[j] = Ampersand }
      first == IF P = {} THEN text ELSE SubSeq(text, 1, MinOf(P) - 1)
      name == IF Nonblank(first) THEN <<strip(first)>> ELSE <<>>
  IN IF P = {} THEN name
     ELSE name \o SplitAmpersand(SubSeq(text, MinOf(P) + 1, Len(text)))

\* The names one pattern adds, line after line.
RECURSIVE CreditsIn(_, _, _)
CreditsIn(lines, keys, stops) ==
  IF lines = <<>> THEN <<>>
  ELSE SplitAmpersand(Capture(Head(lines), keys, stops))
         \o CreditsIn(Tail(lines), keys, stops)

\* first_lines = lines[:10]
first_lines(lines) ==
  SubSeq(lines, 1, IF Len(lines) < FirstLinesLimit THEN Len(lines) ELSE FirstLinesLimit)

\* metadata["writers"] after the standard patterns
StandardWriters(fl) ==
  CreditsIn(fl, WrittenByKeys, {StopWord}) \o CreditsIn(fl, WriterKeys, {StopWord})

TeleplayBy(fl) == CreditsIn(fl, TeleplayByKeys, {StopWord})

StoryBy(fl) == CreditsIn(fl, StoryByKeys, {StopWord})

\* [A-Z][a-z]+(?:\s+[A-Z][a-z]+)*(?:\s*&\s*[A-Z][a-z]+(?:\s+[A-Z][a-z]+)*)*
IsNames(text) ==
  LET w == SelectSeq(text, LAMBDA x : x # "")
  IN /\ w # <<>>
     /\ w[1] \in CapitalisedWords
     /\ w[Len(w)] \in CapitalisedWords
     /\ \A i \in 1..Len(w) : w[i] \in CapitalisedWords \cup {Ampersand}
     /\ \A i \in 1..(Len(w) - 1) : ~(w[i] = Ampersand /\ w[i + 1] = Ampersand)

\* re.match(^(<names>)\s+Transcribed by:, line.strip()).group(1), or None
TranscribedNames(line) ==
  LET t == strip(line)
      J == { j \in 2..(Len(t) - 1) :
               /\ t[j] = StopWord
               /\ t[j + 1] \in ByColonWords
               /\ IsNames(SubSeq(t, 1, j - 1)) }
  IN IF J = {} THEN <<>> ELSE << SubSeq(t, 1, MaxOf(J) - 1) >>

\* The names of the first of the first three lines that matches.
FallbackWriters(fl) ==
  LET I == { i \in 1..Len(fl) : i <= FallbackLimit /\ TranscribedNames(fl[i]) # <<>> }
  IN IF I = {} THEN <<>> ELSE SplitAmpersand(TranscribedNames(fl[MinOf(I)])[1])

\* The fallback is tried whatever the standard patterns found.
FallbackApplies_Always(writers) == TRUE

\* if not metadata["writers"]
FallbackApplies(writers) == writers = <<>>

\* metadata["writers"]
Writers(fl) ==
  IF FallbackApplies(StandardWriters(fl))
  THEN StandardWriters(fl) \o FallbackWriters(fl)
  ELSE StandardWriters(fl)

\* metadata["directors"]
Directors(fl) == CreditsIn(fl, DirectedByKeys, {}) \o CreditsIn(fl, DirectorKeys, {})

\* re.search(Production Code:?\s*([A-Z0-9\-]+), line).group(1), or None
CodeIn(line) ==
  LET P == { i \in 1..Len(line) :
               /\ i + 1 <= Len(line)
               /\ SubSeq(line, i, i + 1) \in ProductionCodeKeys
               /\ StartsWithWordIn(lstrip(SubSeq(line, i + 2, Len(line))), CodeWords) }
  IN IF P = {} THEN <<>>
     ELSE << lstrip(SubSeq(line, MinOf(P) + 2, Len(line)))[1] >>

\* metadata["production_code"]: the code of the first line that has one
ProductionCode(fl) ==
  LET I == { i \in 1..Len(fl) : CodeIn(fl[i]) # <<>> }
  IN IF I = {} THEN <<>> ELSE CodeIn(fl[MinOf(I)])

\* re.search(r'\b(\d{1,2}/\d{1,2})\b', line): the first token of the line
FirstPageToken(line) ==
  LET P == { i \in 1..Len(line) : line[i] \in PageWords }
  IN IF P = {} THEN <<>> ELSE << line[MinOf(P)] >>

\* page_numbers
DocumentPageNumbers(lines) ==
  { FirstPageToken(lines[i])[1] :
      i \in { k \in 1..Len(lines) : FirstPageToken(lines[k]) # <<>> } }

\* metadata["total_pages"]
TotalPages(lines) ==
  IF DocumentPageNumbers(lines) = {} THEN <<>>
  ELSE << MaxOf({ Numerator(p) : p \in DocumentPageNumbers(lines) }) >>

\* text.count(ch), for words that hold ch at most once
CountWordsIn(text, W) == Cardinality({ i \in 1..Len(text) : text[i] \in W })

Unbalanced(title) == CountWordsIn(title, OpenParenWords) > CountWordsIn(title, CloseParenWords)

\* clean_line.lower().startswith("the one")
StartsTheOne(text) ==
  Len(text) >= 2 /\ text[1] \in TheWords /\ text[2] \in OneWords

\* next_line and not next_line.startswith("[") and not
\* next_line.startswith("Written")
Continues(text) ==
  text # <<>> /\ text[1] \notin BracketWords /\ text[1] \notin WrittenWords

StrippedLine(lines, i) == IF i <= Len(lines) THEN strip(lines[i]) ELSE <<>>

\* The title that starts on line i, with up to two continuation lines.
TitleAt(lines, i) ==
  LET title == strip(lines[i])
      takeNext == /\ (EndsWith(title, <<"(">>) \/ Unbalanced(title))
                  /\ i + 1 <= Len(lines)
                  /\ Continues(StrippedLine(lines, i + 1))
      two == JoinWithSpace(title, StrippedLine(lines, i + 1))
      takeThird == /\ takeNext
                   /\ Unbalanced(two)
                   /\ i + 2 <= Len(lines)
                   /\ Continues(StrippedLine(lines, i + 2))
  IN IF takeThird THEN JoinWithSpace(two, StrippedLine(lines, i + 2))
     ELSE IF takeNext THEN two
     ELSE title

\* metadata["episode_title"]
EpisodeTitle(lines) ==
  LET I == { i \in 1..Len(lines) : i <= TitleScanLimit /\ StartsTheOne(strip(lines[i])) }
  IN IF I = {} THEN <<>> ELSE << TitleAt(lines, MinOf(I)) >>

extract_episode_metadata(lines, filename) ==
  [ episode_title |-> EpisodeTitle(lines),
    season |-> Season(filename),
    episode_number |-> EpisodeNumber(filename),
    series_episode_number |->
      SeriesEpisodeNumber(Season(filename), EpisodeNumber(filename)),
    air_date |-> <<>>,
    writers |-> Writers(first_lines(lines)),
    directors |-> Directors(first_lines(lines)),
    story_by |-> StoryBy(first_lines(lines)),
    teleplay_by |-> TeleplayBy(first_lines(lines)),
    production_code |-> ProductionCode(first_lines(lines)),
    total_pages |-> TotalPages(lines) ]

\* A file name with an empty text, or the default file name with a text.
InitMeta ==
  /\ ParserIdle
  /\ s_title = <<>>
  /\ s_data = <<>>
  /\ s_count = 0
  /\ s_pc = "idle"
  /\ \/ m_filename \in Filenames /\ m_lines = <<>>
     \/ m_filename = DefaultFilename /\ m_lines \in Documents
  /\ m_pc = "start"
  /\ metadata = <<>>

\* metadata = extract_episode_metadata(text, pdf_path)
ExtractMetadata ==
  /\ m_pc = "start"
  /\ metadata' = << extract_episode_metadata(m_lines, m_filename) >>
  /\ m_pc' = "done"
  /\ UNCHANGED <<m_filename, m_lines, svars, episode_title, script_data,
                 current_scene, current_speaker, buffer, scene_counter,
                 line_num, pc, statistics, hvars>>

SpecMeta == InitMeta /\ [][ExtractMetadata]_vars

\* ------------------------------------------------------------- claims

\* parse_friends_script has returned script_data
Returned == pc \in {"parsed", "stats", "error"}

\* The positions <<i, k>> of the dialogue entries of a scene sequence.
EntriesOf(data) ==
  { ik \in (1..Len(data)) \X (1..MaxLines + 1) : ik[2] <= Len(data[ik[1]].dialogue) }

\* The speakers of a scene's dialogue entries.
SpeakersOf(scene) == { scene.dialogue[k].speaker : k \in 1..Len(scene.dialogue) }

\* The step reads a [Scene: heading: the scene open after it starts at the
\* line just read.
HeadingStep ==
  /\ line_num' = line_num + 1
  /\ current_scene'.line_number_start = line_num'

\* C1 as stated: the emitted scenes are numbered 1, 2, 3, ... in emission
\* order, without gaps.
C1_SceneNumbersConsecutive ==
  \A i \in 1..Len(script_data) : script_data[i].scene_number = i

\* C1 as amended: the scene numbers of the emitted scenes are strictly
\* increasing in emission order and lie between 0 (the implicit leading
\* scene) and the number of headings read; gaps are possible.
C1_SceneNumbersIncreasing ==
  /\ \A i \in 1..Len(script_data) : script_data[i].scene_number \in 0..scene_counter
  /\ \A i, j \in 1..Len(script_data) :
       i < j => script_data[i].scene_number < script_data[j].scene_number

\* C1 witness: a leading scene numbered 0 is followed by a scene whose number
\* skips a heading discarded as empty.
C1_Witness ==
  /\ Returned
  /\ Len(script_data) >= 2
  /\ script_data[1].scene_number = 0
  /\ script_data[2].scene_number > script_data[1].scene_number + 1

\* C2 as stated, for an open scene that holds dialogue or stage directions:
\* at end of input the open scene is the last element of the result.
C2_OpenSceneAppendedAtEnd ==
  (pc = "parsed" /\ (current_scene.dialogue # <<>> \/ current_scene.stage_directions # <<>>))
    => (script_data # <<>> /\ script_data[Len(script_data)] = current_scene)

\* C3 as stated: every line whose text went into a pending buffer, and was
\* not in a buffer reset by a heading, is in the source text of exactly one
\* dialogue entry of the returned scenes.
C3_DialogueConservation ==
  pc = "parsed" =>
    \A ln \in h_spoken \ h_dropped :
      Cardinality({ ik \in EntriesOf(script_data) :
                      ln \in script_data[ik[1]].dialogue[ik[2]].src }) = 1

\* C4 as stated: when a heading is read while an entry is pending, the entry
\* is finalized into the closing scene, which is emitted with it.
C4_PendingFlushedAtHeading ==
  [][ (HeadingStep /\ Pending(current_speaker, buffer)) =>
        /\ Len(script_data') = Len(script_data) + 1
        /\ LET closed == script_data'[Len(script_data')]
           IN /\ Len(closed.dialogue) = Len(current_scene.dialogue) + 1
              /\ closed.dialogue[Len(closed.dialogue)].speaker = current_speaker
              /\ closed.dialogue[Len(closed.dialogue)].src = h_src ]_vars

\* C5: a buffer pending when a heading is read is discarded: no entry of an
\* emitted or open scene is ever built from its lines, the heading adds no
\* dialogue entry to the closing scene, and after the heading there is no
\* current speaker and the buffer is empty.
C5_PendingDroppedAtHeading ==
  /\ [](\A ik \in EntriesOf(Append(script_data, current_scene)) :
          Append(script_data, current_scene)[ik[1]].dialogue[ik[2]].src
            \cap h_dropped = {})
  /\ [][ HeadingStep =>
           /\ current_speaker' = None
           /\ buffer' = <<>>
           /\ current_scene'.dialogue = <<>>
           /\ \/ script_data' = script_data
              \/ script_data' = Append(script_data, current_scene) ]_vars

\* C5 witness: a buffer was dropped at a heading and the parser has returned
\* scenes.
C5_Witness ==
  /\ pc = "parsed"
  /\ h_dropped # {}
  /\ script_data # <<>>

\* C6 as stated: the line recorded in every dialogue entry is the index of
\* the speaker line that started the entry.
C6_EntryLineIsSpeakerLine ==
  \A ik \in EntriesOf(script_data) :
    script_data[ik[1]].dialogue[ik[2]].line_number
      = script_data[ik[1]].dialogue[ik[2]].start

\* C7 as stated: unique_characters and speaking_characters are equal as sets.
C7_UniqueEqualsSpeaking ==
  pc = "stats" =>
    statistics[1].unique_characters = statistics[1].speaking_characters

\* C7 as amended: every speaking character is a unique character.
C7_SpeakingSubsetOfUnique ==
  pc = "stats" =>
    statistics[1].speaking_characters \subseteq statistics[1].unique_characters

\* C7 witness: statistics with a speaking character and a character that
\* does not speak.
C7_Witness ==
  /\ pc = "stats"
  /\ statistics[1].speaking_characters # {}
  /\ statistics[1].unique_characters \ statistics[1].speaking_characters # {}

\* C8 as stated: in every emitted scene, characters is exactly the set of
\* the speakers of that scene's dialogue entries.
C8_CharactersAreSpeakers ==
  \A i \in 1..Len(script_data) :
    script_data[i].characters = SpeakersOf(script_data[i])

\* C8 as amended: in every emitted scene, the speaker of every dialogue entry
\* is in characters; characters may also hold the name of a speaker line
\* that produced no entry.
C8_SpeakersAreCharacters ==
  \A i \in 1..Len(script_data) :
    SpeakersOf(script_data[i]) \subseteq script_data[i].characters

\* C8 witness: an emitted scene with a dialogue entry and with a character
\* that has no entry in it.
C8_Witness ==
  /\ Returned
  /\ \E i \in 1..Len(script_data) :
       /\ script_data[i].dialogue # <<>>
       /\ script_data[i].characters \ SpeakersOf(script_data[i]) # {}

\* C9: when a heading is read, the open scene is appended to the result if
\* and only if it holds a dialogue entry or a stage direction; otherwise the
\* result is unchanged.
C9_EmittedAtHeadingIffContent ==
  [][ HeadingStep =>
        script_data' =
          IF current_scene.dialogue # <<>> \/ current_scene.stage_directions # <<>>
          THEN Append(script_data, current_scene)
          ELSE script_data ]_vars

\* C9 witness: the one heading read so far found an open scene whose only
\* content was a pending buffer, and nothing was emitted.
C9_Witness ==
  /\ scene_counter = 1
  /\ h_dropped # {}
  /\ script_data = <<>>

\* C10: on empty input the parser returns no scene, and the statistics are
\* computed without error with total_scenes, total_dialogue_lines and
\* average_scene_length all 0.
C10_EmptyInput ==
  line_num = 0 =>
    /\ Returned => script_data = <<>>
    /\ pc # "error"
    /\ pc = "stats" =>
         /\ statistics[1].total_scenes = 0
         /\ statistics[1].total_dialogue_lines = 0
         /\ statistics[1].average_scene_length = Zero

\* C10 witness: the statistics of the empty input.
C10_Witness == pc = "stats" /\ line_num = 0

\* C15: reading a blank, noise or date line changes nothing of the parser
\* state but the line index; reading a stage direction appends one record,
\* with the line's 1-based index, to the open scene's stage_directions and
\* changes nothing else, so the pending speaker and buffer are kept.
C15_SkippedAndStageLinesFrame ==
  [][ /\ (SkipBlank \/ SkipNoise \/ SkipDate) =>
           UNCHANGED <<script_data, current_scene, current_speaker, buffer,
                       scene_counter>>
      /\ StageDirection =>
           /\ UNCHANGED <<script_data, current_speaker, buffer, scene_counter>>
           /\ Len(current_scene'.stage_directions)
                = Len(current_scene.stage_directions) + 1
           /\ SubSeq(current_scene'.stage_directions, 1,
                     Len(current_scene.stage_directions))
                = current_scene.stage_directions
           /\ current_scene'.stage_directions[Len(current_scene'.stage_directions)]
                .line_number = line_num + 1
           /\ current_scene' =
                [ current_scene EXCEPT
                    !.stage_directions = current_scene'.stage_directions ]
    ]_vars

\* C15 witness: the pending buffer holds text of a line before and of a line
\* after a stage direction of the open scene.
C15_Witness ==
  \E k \in 1..Len(current_scene.stage_directions) :
    \E a, b \in h_src :
      /\ a < current_scene.stage_directions[k].line_number
      /\ current_scene.stage_directions[k].line_number < b

\* C16: for a non-empty scene sequence, longest_scene and shortest_scene hold
\* the largest and the smallest per-scene dialogue count, each with the
\* smallest 0-based index of a scene with that count; for an empty sequence
\* both are absent.
C16_LongestShortestFirstIndex ==
  pc = "stats" =>
    LET n == Len(script_data)
        count(i) == Len(script_data[i].dialogue)
        Extreme(found, better(_, _)) ==
          /\ found # <<>>
          /\ found[1].scene_index \in 0..(n - 1)
          /\ count(found[1].scene_index + 1) = found[1].length
          /\ \A i \in 1..n : ~better(count(i), found[1].length)
          /\ \A i \in 1..found[1].scene_index : count(i) # found[1].length
        more(a, b) == a > b
        less(a, b) == a < b
    IN IF n = 0
       THEN /\ statistics[1].longest_scene = <<>>
            /\ statistics[1].shortest_scene = <<>>
       ELSE /\ Extreme(statistics[1].longest_scene, more)
            /\ Extreme(statistics[1].shortest_scene, less)

\* C16 witness: statistics of two or more scenes of which the first two tie.
C16_Witness ==
  /\ pc = "stats"
  /\ Len(script_data) >= 2
  /\ Len(script_data[1].dialogue) = Len(script_data[2].dialogue)
  /\ Len(script_data[1].dialogue) >= 1

RECURSIVE SumOfTotalLines(_, _)
SumOfTotalLines(stats, chars) ==
  IF chars = {} THEN 0
  ELSE LET c == CHOOSE x \in chars : TRUE
       IN stats[c].total_lines + SumOfTotalLines(stats, chars \ {c})

\* C18: the speaker of every dialogue entry is in the characters of its
\* scene; so each character's total_lines is the number of entries it speaks
\* over all scenes, every speaker has a character_stats record, and the
\* total_lines add up to total_dialogue_lines.
C18_TotalLinesCountEntries ==
  /\ \A i \in 1..Len(script_data) :
       \A k \in 1..Len(script_data[i].dialogue) :
         script_data[i].dialogue[k].speaker \in script_data[i].characters
  /\ pc = "stats" =>
       LET cs == statistics[1].character_stats
       IN /\ \A ik \in EntriesOf(script_data) :
               script_data[ik[1]].dialogue[ik[2]].speaker \in DOMAIN cs
          /\ \A c \in DOMAIN cs :
               cs[c].total_lines =
                 Cardinality({ ik \in EntriesOf(script_data) :
                                 script_data[ik[1]].dialogue[ik[2]].speaker = c })
          /\ SumOfTotalLines(cs, DOMAIN cs) = statistics[1].total_dialogue_lines

\* C18 witness: statistics over two or more entries of two speakers.
C18_Witness ==
  /\ pc = "stats"
  /\ statistics[1].total_dialogue_lines >= 2
  /\ Cardinality(statistics[1].speaking_characters) >= 2

\* C19: in every scene, emitted or open, page_numbers is exactly the set of
\* the page_number values of the scene's own dialogue entries.
C19_PageNumbersOfOwnEntries ==
  \A i \in 1..(Len(script_data) + 1) :
    LET scene == Append(script_data, current_scene)[i]
    IN scene.page_numbers =
         { scene.dialogue[k].page_number : k \in 1..Len(scene.dialogue) } \ {None}

\* C19 witness: a scene was returned that has a page marker of an entry and
\* a stage direction carrying another marker, after a pending buffer was
\* dropped at a heading.
C19_Witness ==
  /\ Returned
  /\ h_dropped # {}
  /\ \E i \in 1..Len(script_data) :
       /\ script_data[i].page_numbers # {}
       /\ \E k \in 1..Len(script_data[i].stage_directions) :
            \E w \in 1..Len(script_data[i].stage_directions[k].direction) :
              /\ script_data[i].stage_directions[k].direction[w] \in PageWords
              /\ script_data[i].stage_directions[k].direction[w]
                   \notin script_data[i].page_numbers

\* C20: scene_counter is the number of heading lines read; every scene
\* opened by a heading has as scene_number the ordinal of its heading among
\* the headings read, the implicit leading scene has scene_number 0, and
\* scene_number is strictly increasing along the emitted scenes.
C20_SceneNumberIsHeadingOrdinal ==
  /\ scene_counter = Len(h_headings)
  /\ \A i \in 1..(Len(script_data) + 1) :
       LET scene == Append(script_data, current_scene)[i]
       IN IF scene.line_number_start = 0
          THEN scene.scene_number = 0
          ELSE /\ scene.scene_number \in 1..Len(h_headings)
               /\ h_headings[scene.scene_number] = scene.line_number_start
  /\ \A i \in 1..Len(script_data) :
       \A j \in (i + 1)..Len(script_data) :
         script_data[i].scene_number < script_data[j].scene_number

\* C20 witness: the only scene returned was opened by the second heading,
\* the scene of the first heading having been discarded.
C20_Witness ==
  /\ Returned
  /\ Len(script_data) = 1
  /\ script_data[1].scene_number = 2
  /\ Len(h_headings) = 2

\* The title occurs in the line: its words, separated by blanks, start at
\* some position.
TitleOccurs(line, title) ==
  title # <<>> /\ \E i \in 1..Len(line) : MatchTitle(line, i, title[1], 1) # 0

\* C12 as stated: a second application of the scrubber to the result of a
\* first one changes no dialogue line and returns the count 0.
C12_ScrubbingIdempotent ==
  [][ (s_pc = "second" /\ s_pc' = "done") =>
        (s_data' = s_data /\ s_count' = 0) ]_vars

\* C13 as stated: an entry is marked cleaned, and counted, only if its line
\* held an occurrence of the title, which the scrubber removed.
C13_CleanedOnlyIfTitleRemoved ==
  [][ (s_pc = "first" /\ s_pc' = "second") =>
        /\ \A k \in 1..Len(s_data[1].dialogue) :
             s_data'[1].dialogue[k].cleaned
               => TitleOccurs(s_data[1].dialogue[k].line, s_title)
        /\ s_count' = Cardinality({ k \in 1..Len(s_data[1].dialogue) :
                                      TitleOccurs(s_data[1].dialogue[k].line, s_title) })
    ]_vars

\* extract_episode_metadata has returned.
Extracted == m_pc = "done"

\* C11 as stated: when the file name yields a season s in 1..10 and an
\* episode e, 0 included, series_episode_number is the sum of the episode
\* counts of seasons 1..s-1 plus e; when s is greater than 10 it is absent.
C11_SeriesEpisodeNumber ==
  Extracted =>
    LET s == metadata[1].season
        e == metadata[1].episode_number
    IN /\ (s # <<>> /\ e # <<>> /\ s[1] >= 1 /\ s[1] <= 10)
            => metadata[1].series_episode_number
                 = << SumSeq(SubSeq(season_episodes, 2, s[1])) + e[1] >>
       /\ (s # <<>> /\ s[1] > 10)
            => metadata[1].series_episode_number = <<>>

\* Every N/M page token of the document, at any position of any line.
AllPageTokens(lines) ==
  UNION { { lines[i][j] : j \in { k \in 1..Len(lines[i]) : lines[i][k] \in PageWords } } :
            i \in 1..Len(lines) }

\* C14 as stated: total_pages is the largest numerator over all page tokens
\* of the document, wherever they stand in their lines, and is absent only
\* when the document has no page token.
C14_TotalPagesLargestNumerator ==
  Extracted =>
    metadata[1].total_pages =
      IF AllPageTokens(m_lines) = {} THEN <<>>
      ELSE << MaxOf({ Numerator(p) : p \in AllPageTokens(m_lines) }) >>

\* C17 as stated: when any of the four standard credit patterns matched one
\* of the first ten lines, Teleplay by or Story by alone included, the
\* fallback pattern adds nothing to writers.
C17_FallbackOnlyWhenNoStandardMatch ==
  (Extracted /\ StandardWriters(first_lines(m_lines))
                  \o TeleplayBy(first_lines(m_lines))
                  \o StoryBy(first_lines(m_lines)) # <<>>)
    => metadata[1].writers = StandardWriters(first_lines(m_lines))

\* C17 amended: the fallback pattern adds names to writers only when the
\* Written by and Writer patterns found no writer in the first ten lines;
\* then writers holds the names of the fallback line, whatever Teleplay by
\* and Story by matched.
C17_FallbackOnlyWhenNoWriters ==
  Extracted =>
    /\ StandardWriters(first_lines(m_lines)) # <<>>
         => metadata[1].writers = StandardWriters(first_lines(m_lines))
    /\ StandardWriters(first_lines(m_lines)) = <<>>
         => metadata[1].writers = FallbackWriters(first_lines(m_lines))

\* A document with a Written by line and a fallback line among its first
\* three lines: the writers are those of the Written by line.
C17_Witness ==
  /\ Extracted
  /\ StandardWriters(first_lines(m_lines)) # <<>>
  /\ FallbackWriters(first_lines(m_lines)) # <<>>
  /\ metadata[1].writers = StandardWriters(first_lines(m_lines))

====
